---- MODULE Spec2Model ----
(***************************************************************************)
(* Model of ac::android::H264Encoder (src/src/ac/android/h264encoder.cpp). *)
(* One encoder instance, the codec runtime it drives through callbacks,    *)
(* the producer that queues frames and the reporter it notifies.           *)
(***************************************************************************)
EXTENDS Integers, Sequences, FiniteSets, TLC

\* ------------------------------------------------------------------ bounds
\* Buffers the producer hands to QueueBuffer while the encoder is running.
MaxBuffers == 2

\* ---------------------------------------------------------------- inputs
Widths == {0, 1280}
Heights == {720}
Bitrates == {5000000}
\* BaseEncoder::Config values handed to Configure; width 0 is an invalid one.
Configs == [width : Widths, height : Heights, bitrate : Bitrates]
ValidConfig(c) == c.width > 0 /\ c.height > 0 /\ c.bitrate > 0
\* config_ as the constructor leaves it.
UnsetConfig == [width |-> 0, height |-> 0, bitrate |-> 0]

BufferIds == 1..MaxBuffers
\* MediaBufferWrapper* values: 0 is nullptr, -k is the k-th buffer
\* media_buffer_create returned.
MediaIds == {-k : k \in 1..MaxBuffers}
NullMedia == 0

\* What a runtime create call returns: a pointer to a new object, which
\* differs from the one the encoder still holds.
FreshHandle(held) == IF held = 1 THEN 2 ELSE 1

VARIABLES
    readout_,          \* H264Encoder::readout_
    encoder_,          \* H264Encoder::encoder_, 0 is nullptr
    format_,           \* H264Encoder::format_, 0 is nullptr
    source_format_,    \* H264Encoder::source_format_, 0 is nullptr
    config_,           \* H264Encoder::config_
    running_,          \* H264Encoder::running_
    input_queue_,      \* H264Encoder::input_queue_, oldest buffer first
    pending_buffers_,  \* H264Encoder::pending_buffers_
    pc,                \* control thread: "idle", or "in_start" while inside
                       \* media_codec_source_start
    next_buffer,       \* id of the next buffer QueueBuffer accepts
    pack_calls,        \* ids of the buffers handed to PackBuffer, in order
    packed,            \* <<buffer id, media buffer>> of successful packs
    returned,          \* media buffers whose return callback has fired
    media_released,    \* media buffer -> number of media_buffer_release calls
    released,          \* buffer id -> number of Buffer::Release calls
    last,              \* the most recent call: what it was and what it did
    mbs_config,        \* the width and height Configure computes mbs from
    mbs_written,       \* values written under kFormatKeyIntraRefreshCIRMbs
    name_,             \* NetworkDevice::name_
    address_,          \* NetworkDevice::address_
    ipv4_address_,     \* NetworkDevice::ipv4_address_
    state_,            \* NetworkDevice::state_
    device_last,       \* the most recent NetworkDevice call
    producer,          \* producer thread: where it is inside QueueBuffer
    reader,            \* runtime thread: where it is inside OnSourceRead
    returner,          \* runtime thread: where it is inside OnBufferReturned
    output,            \* output thread: where it is inside Execute
    start_entry,       \* the pipeline as the Start call in progress found it
    reports            \* Started notifications sent minus Stopped ones

vars == <<readout_, encoder_, format_, source_format_, config_, running_,
          input_queue_, pending_buffers_, pc,
          next_buffer, pack_calls, packed, returned, media_released,
          released, last,
          mbs_config, mbs_written,
          name_, address_, ipv4_address_, state_, device_last,
          producer, reader, returner, output, start_entry, reports>>

encoderVars == <<encoder_, format_, source_format_, config_>>
bufferVars == <<input_queue_, pending_buffers_, next_buffer, pack_calls,
                packed, returned, media_released, released>>

mbsVars == <<mbs_config, mbs_written>>
deviceVars == <<name_, address_, ipv4_address_, state_, device_last>>
threadVars == <<producer, reader, returner, output>>
\* What the calls of the encoder's entry points, taken whole, leave alone.
startVars == <<start_entry, reports>>
otherVars == <<mbsVars, deviceVars, threadVars, startVars>>

\* No video::Buffer (a null Buffer::Ptr).
NoBuffer == [id |-> 0, native |-> FALSE, len |-> 0]

\* The record of a call: op the entry point, ret its return value, ev the
\* runtime calls and the reporter and delegate notifications it made, in
\* order ("x:null" and "x:false" are runtime calls that failed). again says
\* that the call recorded just before was the same entry point and returned
\* true. The other fields are filled in by the callbacks: thiz and slot say
\* that user_data and the output slot pointer were non-null, arg is the
\* media buffer argument, pack the buffer handed to PackBuffer, out the
\* media buffer written to the output slot.
Call(op, ret, ev) ==
    [op |-> op, ret |-> ret, ev |-> ev,
     again |-> (last.op = op /\ last.ret = "true"),
     thiz |-> TRUE, slot |-> TRUE, arg |-> NullMedia,
     pack |-> NoBuffer, out |-> NullMedia]

Count(s, e) == Cardinality({i \in DOMAIN s : s[i] = e})
Has(s, e) == \E i \in DOMAIN s : s[i] = e

\* ------------------------------------------------------------ construction
\* No Start call is in progress.
NoEntry ==
    [running |-> FALSE, queue |-> <<>>, pending |-> <<>>, next |-> 0,
     returned |-> {}]

EncoderInit ==
    /\ start_entry = NoEntry
    /\ reports = 0
    /\ readout_ \in BOOLEAN
    /\ encoder_ = 0
    /\ format_ = 0
    /\ source_format_ = 0
    /\ config_ = UnsetConfig
    /\ running_ = FALSE
    /\ input_queue_ = <<>>
    /\ pending_buffers_ = <<>>
    /\ pc = "idle"
    /\ next_buffer = 1
    /\ pack_calls = <<>>
    /\ packed = <<>>
    /\ returned = {}
    /\ media_released = [m \in MediaIds |-> 0]
    /\ released = [b \in BufferIds |-> 0]
    /\ last = [op |-> "none", ret |-> "none", ev |-> <<>>, again |-> FALSE,
               thiz |-> TRUE, slot |-> TRUE, arg |-> NullMedia,
               pack |-> NoBuffer, out |-> NullMedia]

\* No mbs computed yet.
MbsUnset ==
    /\ mbs_config = [width |-> 0, height |-> 0]
    /\ mbs_written = <<>>

\* No NetworkDevice call made yet; mcs::NetworkDevice's constructor is not
\* part of the sources, "Idle is initial".
DeviceInit ==
    /\ name_ = ""
    /\ address_ = ""
    /\ ipv4_address_ = ""
    /\ state_ = "kIdle"
    /\ device_last = [op |-> "none", arg |-> "", prev |-> "kIdle", ret |-> ""]

\* No thread is inside a call.
NoIter == [iter |-> 0, buffer |-> NullMedia, moved |-> FALSE]
ThreadsIdle ==
    /\ producer = "idle"
    /\ reader = [pc |-> "idle", item |-> <<>>]
    /\ returner = [pc |-> "idle"] @@ NoIter
    /\ output = "idle"

Init == EncoderInit /\ MbsUnset /\ DeviceInit /\ ThreadsIdle

\* ---------------------------------------------------------------- Configure
\* Where Configure's allocations fail: 0 nowhere, 1 media_message_create,
\* 2 media_source_create, 3 media_meta_data_create,
\* 4 media_codec_source_create.
FailPoints == 0..4

\* Configure without its check of encoder_.
AlreadyConfigured_Never == FALSE

\* if (encoder_) return false;
AlreadyConfigured == encoder_ # 0

\* A Configure whose failure path after media_meta_data_create forgets the
\* media source.
ConfigureCalls_LeakSource(fp) ==
    IF fp = 1 THEN <<"media_message_create:null">>
    ELSE IF fp = 2 THEN
        <<"media_message_create", "media_source_create:null",
          "media_message_release">>
    ELSE IF fp = 3 THEN
        <<"media_message_create", "media_source_create",
          "media_meta_data_create:null", "media_message_release">>
    ELSE IF fp = 4 THEN
        <<"media_message_create", "media_source_create",
          "media_meta_data_create", "media_codec_source_create:null",
          "media_meta_data_release", "media_message_release",
          "media_source_release">>
    ELSE
        <<"media_message_create", "media_source_create",
          "media_meta_data_create", "media_codec_source_create">>

\* The runtime create and release calls Configure makes, in order, when its
\* allocations fail at fp; "x:null" is a create call that returned nullptr.
ConfigureCalls(fp) ==
    IF fp = 1 THEN <<"media_message_create:null">>
    ELSE IF fp = 2 THEN
        <<"media_message_create", "media_source_create:null",
          "media_message_release">>
    ELSE IF fp = 3 THEN
        <<"media_message_create", "media_source_create",
          "media_meta_data_create:null",
          "media_message_release", "media_source_release">>
    ELSE IF fp = 4 THEN
        <<"media_message_create", "media_source_create",
          "media_meta_data_create", "media_codec_source_create:null",
          "media_meta_data_release", "media_message_release",
          "media_source_release">>
    ELSE
        <<"media_message_create", "media_source_create",
          "media_meta_data_create", "media_codec_source_create">>

Configure(config, fp) ==
    /\ pc = "idle"
    /\ IF AlreadyConfigured
       THEN /\ last' = Call("Configure", "false", <<>>)
            /\ UNCHANGED encoderVars
       ELSE IF fp = 0
       THEN /\ encoder_' = FreshHandle(encoder_)
            /\ config_' = config
            /\ format_' = FreshHandle(format_)
            /\ source_format_' = FreshHandle(source_format_)
            /\ last' = Call("Configure", "true", ConfigureCalls(fp))
       ELSE /\ UNCHANGED encoderVars
            /\ last' = Call("Configure", "false", ConfigureCalls(fp))
    /\ UNCHANGED <<otherVars, readout_, running_, pc, bufferVars>>

\* -------------------------------------------------------------- Start, Stop
\* What a Start call finds: running_, the queue and pending_buffers_, with
\* the number of buffers accepted and the media buffers returned so far.
\* StartCall and StartReturn say nothing of start_entry: a specification
\* either leaves it alone or keeps StartEntry in it for the length of the
\* call.
StartEntry ==
    [running |-> running_, queue |-> input_queue_,
     pending |-> pending_buffers_, next |-> next_buffer,
     returned |-> returned]

\* Start checking running_ only.
StartRejected_RunningOnly == running_

\* if (!encoder_ || running_) return false;
StartRejected == encoder_ = 0 \/ running_

\* A Start that asks the runtime to start before it sets running_.
StartCall_FlagAfterStart ==
    /\ pc = "idle"
    /\ IF StartRejected
       THEN /\ last' = Call("Start", "false", <<>>)
            /\ UNCHANGED <<running_, pc>>
       ELSE /\ UNCHANGED running_
            /\ pc' = "in_start"
            /\ last' = Call("Start", "pending", <<"media_codec_source_start">>)
    /\ UNCHANGED <<mbsVars, deviceVars, threadVars, reports>>
    /\ UNCHANGED <<readout_, encoderVars, bufferVars>>

\* Start up to the call of media_codec_source_start: running_ is set before
\* the runtime is asked to start, and the runtime may call OnSourceRead from
\* inside its start operation.
StartCall ==
    /\ pc = "idle"
    /\ IF StartRejected
       THEN /\ last' = Call("Start", "false", <<>>)
            /\ UNCHANGED <<running_, pc>>
       ELSE /\ running_' = TRUE
            /\ pc' = "in_start"
            /\ last' = Call("Start", "pending", <<"media_codec_source_start">>)
    /\ UNCHANGED <<mbsVars, deviceVars, threadVars, reports>>
    /\ UNCHANGED <<readout_, encoderVars, bufferVars>>

\* A Start that leaves running_ set when the runtime failed to start.
StartReturn_NoRollback(ok) ==
    /\ pc = "in_start"
    /\ pc' = "idle"
    /\ IF ok
       THEN /\ last' = Call("Start", "true",
                            <<"media_codec_source_start", "Started">>)
            /\ reports' = reports + 1
       ELSE /\ last' = Call("Start", "false", <<"media_codec_source_start:false">>)
            /\ UNCHANGED reports
    /\ UNCHANGED <<mbsVars, deviceVars, threadVars>>
    /\ UNCHANGED <<running_, readout_, encoderVars, bufferVars>>

\* media_codec_source_start returns ok; Start rolls running_ back when it
\* failed and reports Started when it succeeded.
StartReturn(ok) ==
    /\ pc = "in_start"
    /\ pc' = "idle"
    /\ IF ok
       THEN /\ last' = Call("Start", "true",
                            <<"media_codec_source_start", "Started">>)
            /\ reports' = reports + 1
            /\ UNCHANGED running_
       ELSE /\ running_' = FALSE
            /\ last' = Call("Start", "false", <<"media_codec_source_start:false">>)
            /\ UNCHANGED reports
    /\ UNCHANGED <<mbsVars, deviceVars, threadVars>>
    /\ UNCHANGED <<readout_, encoderVars, bufferVars>>

\* Stop checking encoder_ only.
StopRejected_EncoderOnly == encoder_ = 0

\* if (!encoder_ || !running_) return false;
StopRejected == encoder_ = 0 \/ ~running_

\* A Stop that reports Stopped although media_codec_source_stop failed.
Stop_NotifyOnFailure(ok) ==
    /\ pc = "idle"
    /\ IF StopRejected
       THEN /\ last' = Call("Stop", "false", <<>>)
            /\ UNCHANGED <<running_, reports>>
       ELSE IF ~ok
       THEN /\ last' = Call("Stop", "false",
                            <<"media_codec_source_stop:false", "Stopped">>)
            /\ reports' = reports - 1
            /\ UNCHANGED running_
       ELSE /\ running_' = FALSE
            /\ reports' = reports - 1
            /\ last' = Call("Stop", "true",
                            <<"media_codec_source_stop", "Stopped">>)
    /\ UNCHANGED <<mbsVars, deviceVars, threadVars, start_entry>>
    /\ UNCHANGED <<readout_, encoderVars, bufferVars, pc>>

\* A Stop that empties input_queue_ when it succeeds.
Stop_Flush(ok) ==
    /\ pc = "idle"
    /\ IF StopRejected
       THEN /\ last' = Call("Stop", "false", <<>>)
            /\ UNCHANGED <<running_, reports, input_queue_>>
       ELSE IF ~ok
       THEN /\ last' = Call("Stop", "false", <<"media_codec_source_stop:false">>)
            /\ UNCHANGED <<running_, reports, input_queue_>>
       ELSE /\ running_' = FALSE
            /\ reports' = reports - 1
            /\ input_queue_' = <<>>
            /\ last' = Call("Stop", "true",
                            <<"media_codec_source_stop", "Stopped">>)
    /\ UNCHANGED <<mbsVars, deviceVars, threadVars, start_entry>>
    /\ UNCHANGED <<readout_, encoderVars, pending_buffers_, next_buffer,
                   pack_calls, packed, returned, media_released, released, pc>>

\* ok is what media_codec_source_stop returns.
Stop(ok) ==
    /\ pc = "idle"
    /\ IF StopRejected
       THEN /\ last' = Call("Stop", "false", <<>>)
            /\ UNCHANGED <<running_, reports>>
       ELSE IF ~ok
       THEN /\ last' = Call("Stop", "false", <<"media_codec_source_stop:false">>)
            /\ UNCHANGED <<running_, reports>>
       ELSE /\ running_' = FALSE
            /\ reports' = reports - 1
            /\ last' = Call("Stop", "true",
                            <<"media_codec_source_stop", "Stopped">>)
    /\ UNCHANGED <<mbsVars, deviceVars, threadVars, start_entry>>
    /\ UNCHANGED <<readout_, encoderVars, bufferVars, pc>>

\* ------------------------------------------------------------- Buffer Queue
\* ac::video::BufferQueue: a FIFO; Push appends, Next removes and returns
\* the oldest buffer, or nothing when the queue is empty.
BufferQueuePush(queue, buffer) == Append(queue, buffer)
BufferQueueEmpty(queue) == queue = <<>>
BufferQueueFront(queue) == Head(queue)
BufferQueuePop(queue) == Tail(queue)

\* video::Buffer values the producer hands over: with or without a native
\* handle, empty or holding one RGBA pixel.
Lengths == {0, 4}
Buffer(id, native, len) == [id |-> id, native |-> native, len |-> len]

\* -------------------------------------------------------------- QueueBuffer
\* QueueBuffer without its check of running_.
QueueRejected_Never == FALSE

\* if (!running_) return;
QueueRejected == ~running_

QueueBuffer(native, len) ==
    /\ IF QueueRejected
       THEN /\ last' = Call("QueueBuffer", "void", <<>>)
            /\ UNCHANGED <<input_queue_, next_buffer>>
       ELSE /\ next_buffer <= MaxBuffers
            /\ input_queue_' =
                   BufferQueuePush(input_queue_, Buffer(next_buffer, native, len))
            /\ next_buffer' = next_buffer + 1
            /\ last' = Call("QueueBuffer", "void", <<"ReceivedInputBuffer">>)
    /\ UNCHANGED <<otherVars, readout_, encoderVars, running_, pc,
                   pending_buffers_, pack_calls, packed, returned,
                   media_released, released>>

\* --------------------------------------------------------------- PackBuffer
\* PackBuffer whose readout branch does not test NativeHandle().
PackMode_ReadoutAnyHandle(input_buffer) ==
    IF readout_ /\ input_buffer.len > 0 THEN "readout"
    ELSE IF ~readout_ /\ input_buffer.native THEN "native"
    ELSE "none"

\* PackBuffer whose native branch does not test NativeHandle().
PackMode_NativeAnyHandle(input_buffer) ==
    IF readout_ /\ ~input_buffer.native /\ input_buffer.len > 0 THEN "readout"
    ELSE IF ~readout_ THEN "native"
    ELSE "none"

\* Which branch of PackBuffer takes the buffer: the readout copy, the native
\* handle metadata, or neither.
PackMode(input_buffer) ==
    IF readout_ /\ ~input_buffer.native /\ input_buffer.len > 0 THEN "readout"
    ELSE IF ~readout_ /\ input_buffer.native THEN "native"
    ELSE "none"

\* PackBuffer without its checks of what media_buffer_create returned.
PackBuffer_AllocUnchecked(input_buffer, alloc_ok) ==
    IF PackMode(input_buffer) = "none" THEN NullMedia
    ELSE -(Len(packed) + 1)

\* The MediaBufferWrapper* PackBuffer returns; alloc_ok is whether
\* media_buffer_create succeeds when it is called.
PackBuffer(input_buffer, alloc_ok) ==
    IF PackMode(input_buffer) = "none" THEN NullMedia
    ELSE IF ~alloc_ok THEN NullMedia
    ELSE -(Len(packed) + 1)

\* The media_buffer_create call PackBuffer makes, if it makes one.
PackCalls(input_buffer, alloc_ok) ==
    IF PackMode(input_buffer) = "none" THEN <<>>
    ELSE IF alloc_ok THEN <<"media_buffer_create">>
    ELSE <<"media_buffer_create:null">>

\* pending_buffers_.push_back(BufferItem{input_buffer, buffer})
BufferItem(input_buffer, media_buffer) ==
    [buffer |-> input_buffer, media_buffer |-> media_buffer]

\* ------------------------------------------------------------- OnSourceRead
\* The callback's record: its inputs, the buffer it handed to PackBuffer and
\* the media buffer it wrote to the output slot.
ReadCall(ret, ev, thiz, slot, input_buffer, media_buffer) ==
    [Call("OnSourceRead", ret, ev) EXCEPT
        !.thiz = thiz, !.slot = slot, !.pack = input_buffer, !.out = media_buffer]

\* A pull-read that takes the newest queued buffer instead of the oldest.
TakeInput_Newest(queue) ==
    IF BufferQueueEmpty(queue)
    THEN [buffer |-> NoBuffer, rest |-> queue]
    ELSE [buffer |-> queue[Len(queue)], rest |-> SubSeq(queue, 1, Len(queue) - 1)]

\* A pull-read that looks at the oldest queued buffer and leaves it queued.
TakeInput_Peek(queue) ==
    IF BufferQueueEmpty(queue)
    THEN [buffer |-> NoBuffer, rest |-> queue]
    ELSE [buffer |-> BufferQueueFront(queue), rest |-> queue]

\* const auto input_buffer = thiz->input_queue_->Next(): the buffer taken
\* and the queue it leaves; no buffer from an empty queue.
TakeInput(queue) ==
    IF BufferQueueEmpty(queue)
    THEN [buffer |-> NoBuffer, rest |-> queue]
    ELSE [buffer |-> BufferQueueFront(queue), rest |-> BufferQueuePop(queue)]

\* A pull-read that reports success when the queue gave it nothing.
ReadWithoutInput_Success(thiz, slot) ==
    ReadCall("0", <<"BeganFrame">>, thiz, slot, NoBuffer, NullMedia)

\* if (!input_buffer) return kAndroidMediaErrorEndOfStream;
ReadWithoutInput(thiz, slot) ==
    ReadCall("EndOfStream", <<>>, thiz, slot, NoBuffer, NullMedia)

\* A pull-read that tests the output slot before the instance and the
\* running flag.
ReadPrecondition_SlotFirst(thiz, slot) ==
    IF ~slot THEN "BufferTooSmall"
    ELSE IF ~thiz \/ ~running_ THEN "NotConnected"
    ELSE "0"

\* if (!thiz || !thiz->running_) return kAndroidMediaErrorNotConnected;
\* if (!buffer) return kAndroidMediaErrorBufferTooSmall;
\* "0" when both tests pass.
ReadPrecondition(thiz, slot) ==
    IF ~thiz \/ ~running_ THEN "NotConnected"
    ELSE IF ~slot THEN "BufferTooSmall"
    ELSE "0"

\* thiz: user_data is the encoder (TRUE) or null; slot: the output slot
\* pointer is non-null; alloc_ok: media_buffer_create succeeds if called.
OnSourceRead(thiz, slot, alloc_ok) ==
    /\ IF ReadPrecondition(thiz, slot) # "0"
       THEN /\ last' = ReadCall(ReadPrecondition(thiz, slot), <<>>, thiz, slot,
                                NoBuffer, NullMedia)
            /\ UNCHANGED <<input_queue_, pending_buffers_, pack_calls, packed>>
       ELSE LET taken == TakeInput(input_queue_)
                input_buffer == taken.buffer
                next_buffer_ == PackBuffer(input_buffer, alloc_ok)
            IN  /\ input_queue_' = taken.rest
                /\ IF input_buffer = NoBuffer
                   THEN /\ last' = ReadWithoutInput(thiz, slot)
                        /\ UNCHANGED <<pending_buffers_, pack_calls, packed>>
                   ELSE /\ pack_calls' = Append(pack_calls, input_buffer.id)
                        /\ IF next_buffer_ = NullMedia
                           THEN /\ last' = ReadCall("EndOfStream",
                                                    PackCalls(input_buffer, alloc_ok),
                                                    thiz, slot, input_buffer, NullMedia)
                                /\ UNCHANGED <<pending_buffers_, packed>>
                           ELSE /\ pending_buffers_' =
                                       Append(pending_buffers_,
                                              BufferItem(input_buffer, next_buffer_))
                                /\ packed' = Append(packed,
                                                    <<input_buffer.id, next_buffer_>>)
                                /\ last' = ReadCall("0",
                                                    PackCalls(input_buffer, alloc_ok)
                                                    \o <<"BeganFrame">>,
                                                    thiz, slot, input_buffer, next_buffer_)
    /\ UNCHANGED <<otherVars, readout_, encoderVars, running_, pc,
                   next_buffer, returned, media_released, released>>

\* --------------------------------------------------------- OnBufferReturned
ReturnCall(ev, thiz, buffer) ==
    [Call("OnBufferReturned", "void", ev) EXCEPT !.thiz = thiz, !.arg = buffer]

\* A scan without the end() check: a buffer that is not found yields the
\* last entry.
FindPending_NoEndCheck(buffer) ==
    IF \E i \in DOMAIN pending_buffers_ : pending_buffers_[i].media_buffer = buffer
    THEN CHOOSE i \in DOMAIN pending_buffers_ :
             /\ pending_buffers_[i].media_buffer = buffer
             /\ \A j \in 1..(i - 1) : pending_buffers_[j].media_buffer # buffer
    ELSE Len(pending_buffers_)

\* The linear scan: the position of the first entry whose media_buffer is
\* buffer, 0 when the scan reaches end().
FindPending(buffer) ==
    IF \E i \in DOMAIN pending_buffers_ : pending_buffers_[i].media_buffer = buffer
    THEN CHOOSE i \in DOMAIN pending_buffers_ :
             /\ pending_buffers_[i].media_buffer = buffer
             /\ \A j \in 1..(i - 1) : pending_buffers_[j].media_buffer # buffer
    ELSE 0

\* A callback that forgets to erase the entry it found.
Erase_Keep(s, i) == s

\* pending_buffers_.erase(iter)
Erase(s, i) == [k \in 1..(Len(s) - 1) |-> IF k < i THEN s[k] ELSE s[k + 1]]

\* The media buffers successful packs have handed to the runtime.
HandedOut == {packed[i][2] : i \in DOMAIN packed}

\* A callback that also gives up when the encoder is not running.
ReturnRejected_NotRunning(thiz) == ~thiz \/ ~running_

\* if (!thiz) return;
ReturnRejected(thiz) == ~thiz

\* thiz: user_data is the encoder (TRUE) or null; buffer: the media buffer
\* the runtime returns.
OnBufferReturned(thiz, buffer) ==
    /\ IF ReturnRejected(thiz)
       THEN /\ last' = ReturnCall(<<>>, thiz, buffer)
            /\ UNCHANGED <<pending_buffers_, returned, media_released, released>>
       ELSE LET iter == FindPending(buffer) IN
            /\ returned' = IF buffer \in HandedOut
                           THEN returned \cup {buffer} ELSE returned
            /\ IF iter = 0
               THEN /\ last' = ReturnCall(<<>>, thiz, buffer)
                    /\ UNCHANGED <<pending_buffers_, media_released, released>>
               ELSE LET item == pending_buffers_[iter] IN
                    /\ media_released' =
                           [media_released EXCEPT ![item.media_buffer] = @ + 1]
                    /\ pending_buffers_' = Erase(pending_buffers_, iter)
                    /\ released' = [released EXCEPT ![item.buffer.id] = @ + 1]
                    /\ last' = ReturnCall(<<"media_buffer_release", "Release">>,
                                          thiz, buffer)
    /\ UNCHANGED <<otherVars, readout_, encoderVars, running_, pc,
                   input_queue_, next_buffer, pack_calls, packed>>

\* ------------------------------------------------------------------ Execute
\* An Execute that tells the delegate of the buffer before it tells it of
\* the codec configuration.
DelegateCalls_AvailableFirst(codec_config, lock1, lock2) ==
    (IF lock2 THEN <<"delegate_.lock", "OnBufferAvailable">>
     ELSE <<"delegate_.lock:null">>)
    \o (IF codec_config
        THEN <<"DoesBufferContainCodecConfig:true">>
             \o (IF lock1 THEN <<"delegate_.lock", "OnBufferWithCodecConfig">>
                 ELSE <<"delegate_.lock:null">>)
        ELSE <<"DoesBufferContainCodecConfig:false">>)

\* What Execute does with the unit it read: the codec-config test, the
\* delegate_.lock() calls ("delegate_.lock:null" found the delegate gone)
\* and the delegate callbacks, in order.
DelegateCalls(codec_config, lock1, lock2) ==
    (IF codec_config
     THEN <<"DoesBufferContainCodecConfig:true">>
          \o (IF lock1 THEN <<"delegate_.lock", "OnBufferWithCodecConfig">>
              ELSE <<"delegate_.lock:null">>)
     ELSE <<"DoesBufferContainCodecConfig:false">>)
    \o (IF lock2 THEN <<"delegate_.lock", "OnBufferAvailable">>
        ELSE <<"delegate_.lock:null">>)

\* An Execute that reports the finished frame before it looks at what
\* media_codec_source_read returned.
Execute_ReportFirst(read_ok, codec_config, lock1, lock2) ==
    /\ lock2 => lock1
    /\ IF ~running_
       THEN last' = Call("Execute", "false", <<>>)
       ELSE IF ~read_ok
       THEN last' = Call("Execute", "false",
                         <<"FinishedFrame", "media_codec_source_read:false">>)
       ELSE last' = Call("Execute", "true",
                         <<"FinishedFrame", "media_codec_source_read">>
                         \o DelegateCalls(codec_config, lock1, lock2))
    /\ UNCHANGED <<otherVars, readout_, encoderVars, running_, pc, bufferVars>>

\* read_ok: media_codec_source_read succeeds; codec_config: the unit read
\* carries codec configuration; lock1, lock2: what the two delegate_.lock()
\* calls find (an expired delegate stays expired).
Execute(read_ok, codec_config, lock1, lock2) ==
    /\ lock2 => lock1
    /\ IF ~running_
       THEN last' = Call("Execute", "false", <<>>)
       ELSE IF ~read_ok
       THEN last' = Call("Execute", "false", <<"media_codec_source_read:false">>)
       ELSE last' = Call("Execute", "true",
                         <<"media_codec_source_read", "FinishedFrame">>
                         \o DelegateCalls(codec_config, lock1, lock2))
    /\ UNCHANGED <<otherVars, readout_, encoderVars, running_, pc, bufferVars>>

\* ------------------------------------------------------------ specification
Next ==
    \/ \E config \in Configs, fp \in FailPoints : Configure(config, fp)
    \/ StartCall /\ UNCHANGED start_entry
    \/ \E ok \in BOOLEAN : StartReturn(ok) /\ UNCHANGED start_entry
    \/ \E ok \in BOOLEAN : Stop(ok)
    \/ \E native \in BOOLEAN, len \in Lengths : QueueBuffer(native, len)
    \/ \E thiz \in BOOLEAN, slot \in BOOLEAN, alloc_ok \in BOOLEAN :
           OnSourceRead(thiz, slot, alloc_ok)
    \/ \E thiz \in BOOLEAN, buffer \in MediaIds \cup {NullMedia} :
           OnBufferReturned(thiz, buffer)
    \/ \E read_ok \in BOOLEAN, codec_config \in BOOLEAN,
          lock1 \in BOOLEAN, lock2 \in BOOLEAN :
           Execute(read_ok, codec_config, lock1, lock2)

Spec == Init /\ [][Next]_vars

\* The same calls, with what Start found kept in start_entry from its call
\* to its return.
NextStart ==
    \/ \E config \in Configs, fp \in FailPoints : Configure(config, fp)
    \/ /\ StartCall
       /\ start_entry' = IF pc' = "in_start" THEN StartEntry ELSE start_entry
    \/ \E ok \in BOOLEAN : StartReturn(ok) /\ start_entry' = NoEntry
    \/ \E ok \in BOOLEAN : Stop(ok)
    \/ \E native \in BOOLEAN, len \in Lengths : QueueBuffer(native, len)
    \/ \E thiz \in BOOLEAN, slot \in BOOLEAN, alloc_ok \in BOOLEAN :
           OnSourceRead(thiz, slot, alloc_ok)
    \/ \E thiz \in BOOLEAN, buffer \in MediaIds \cup {NullMedia} :
           OnBufferReturned(thiz, buffer)
    \/ \E read_ok \in BOOLEAN, codec_config \in BOOLEAN,
          lock1 \in BOOLEAN, lock2 \in BOOLEAN :
           Execute(read_ok, codec_config, lock1, lock2)

SpecStart == Init /\ [][NextStart]_vars

\* Every variable of the encoder.
encoderAll == <<readout_, encoderVars, running_, pc, bufferVars, last,
               startVars>>

\* ------------------------------------------------ intra-refresh macroblocks
\* config.width and config.height values: around the macroblock size, usual
\* frame sizes, and one large enough for the product to leave 32 bits.
MbsWidths == {1, 15, 16, 17, 640, 1280, 1920, 524288}
MbsHeights == {1, 16, 17, 480, 720, 1080, 1088, 524288}

\* (x + 15) / 16
MacroBlocks(x) == (x + 15) \div 16

\* x * k in 32 bits, for 0 <= x < 2^31 and a small k: the wrapped product as
\* its 16-bit halves <<high, low>>.
TimesWrapped(x, k) ==
    LET low == (x % 65536) * k
    IN  <<((x \div 65536) * k + low \div 65536) % 65536, low % 65536>>

\* u / d for u the halves of an unsigned 32-bit value.
DivUnsigned(u, d) ==
    (u[1] \div d) * 65536 + ((u[1] % d) * 65536 + u[2]) \div d

\* The halves of -u.
Negated(u) ==
    IF u[2] = 0 THEN <<(65536 - u[1]) % 65536, 0>>
    ELSE <<65535 - u[1], 65536 - u[2]>>

\* u / d for u the halves of a two's complement 32-bit value; the quotient
\* is truncated toward zero.
DivSigned(u, d) ==
    IF u[1] < 32768 THEN DivUnsigned(u, d) ELSE -DivUnsigned(Negated(u), d)

\* ((config.width + 15) / 16) * ((config.height + 15) / 16) * 10
\* in 32 bits; for the MbsWidths and MbsHeights the first product is at most
\* 2^30 and only the multiplication by 10 can wrap.
TenTimesMacroBlocks(config) ==
    TimesWrapped(MacroBlocks(config.width) * MacroBlocks(config.height), 10)

\* const int32_t mbs = (((config.width + 15) / 16)
\*                      * ((config.height + 15) / 16) * 10) / 100;
\* BaseEncoder::Config is not part of the sources. With unsigned fields the
\* product wraps modulo 2^32 and is divided unsigned; with int fields a
\* product beyond 2^31 - 1 is undefined, and the wrapped two's complement
\* value is the outcome modelled for it. The two agree whenever the product
\* stays below 2^31.
Mbs(config) ==
    {DivUnsigned(TenTimesMacroBlocks(config), 100),
     DivSigned(TenTimesMacroBlocks(config), 100)}

InitMbs ==
    /\ EncoderInit /\ DeviceInit /\ ThreadsIdle
    /\ mbs_config \in [width : MbsWidths, height : MbsHeights]
    /\ mbs_written = <<>>

\* media_message_set_int32(format, kFormatKeyIntraRefreshCIRMbs, mbs)
ConfigureMbs ==
    /\ mbs_written = <<>>
    /\ \E mbs \in Mbs(mbs_config) : mbs_written' = <<mbs>>
    /\ UNCHANGED <<mbs_config, encoderAll, deviceVars, threadVars>>

NextMbs == ConfigureMbs

SpecMbs == InitMbs /\ [][NextMbs]_vars

\* ------------------------------------------------------------ NetworkDevice
\* enum NetworkDeviceState
NetworkDeviceState ==
    {"kIdle", "kFailure", "kAssociation", "kConfiguration", "kConnected",
     "kDisconnected"}

\* The strings the session layer sets.
Names == {"", "display"}
Addresses == {"", "4e:74:03:70:e2:c1"}
IPv4Addresses == {"", "192.168.7.15"}

\* The record of a NetworkDevice call: prev is state_ when it was made.
DeviceCall(op, arg, ret) == [op |-> op, arg |-> arg, prev |-> state_, ret |-> ret]

\* The phase changes drawn in the state diagram: Idle, Association,
\* Configuration, Connected in turn, Failure from any phase, Disconnected
\* from Connected.
Drawn(p, q) ==
    \/ q = "kFailure"
    \/ <<p, q>> \in {<<"kIdle", "kAssociation">>,
                    <<"kAssociation", "kConfiguration">>,
                    <<"kConfiguration", "kConnected">>,
                    <<"kConnected", "kDisconnected">>}

\* A setter that enforces the state diagram.
SetState_DrawnOnly(state) ==
    /\ state_' = IF Drawn(state_, state) THEN state ELSE state_
    /\ device_last' = DeviceCall("SetState", state, "void")
    /\ UNCHANGED <<name_, address_, ipv4_address_>>
    /\ UNCHANGED <<encoderAll, mbsVars, threadVars>>

\* void SetState(NetworkDeviceState state): applies the phase whatever the
\* current one is.
SetState(state) ==
    /\ state_' = state
    /\ device_last' = DeviceCall("SetState", state, "void")
    /\ UNCHANGED <<name_, address_, ipv4_address_>>
    /\ UNCHANGED <<encoderAll, mbsVars, threadVars>>

\* NetworkDeviceState State() const
State ==
    /\ device_last' = DeviceCall("State", "", state_)
    /\ UNCHANGED <<name_, address_, ipv4_address_, state_>>
    /\ UNCHANGED <<encoderAll, mbsVars, threadVars>>

\* void SetName(const std::string &name)
SetName(name) ==
    /\ name_' = name
    /\ device_last' = DeviceCall("SetName", name, "void")
    /\ UNCHANGED <<address_, ipv4_address_, state_>>
    /\ UNCHANGED <<encoderAll, mbsVars, threadVars>>

\* void SetAddress(const std::string &address)
SetAddress(address) ==
    /\ address_' = address
    /\ device_last' = DeviceCall("SetAddress", address, "void")
    /\ UNCHANGED <<name_, ipv4_address_, state_>>
    /\ UNCHANGED <<encoderAll, mbsVars, threadVars>>

\* void SetIPv4Address(const std::string &address)
SetIPv4Address(address) ==
    /\ ipv4_address_' = address
    /\ device_last' = DeviceCall("SetIPv4Address", address, "void")
    /\ UNCHANGED <<name_, address_, state_>>
    /\ UNCHANGED <<encoderAll, mbsVars, threadVars>>

InitDevice == EncoderInit /\ MbsUnset /\ ThreadsIdle /\ DeviceInit

NextDevice ==
    \/ \E state \in NetworkDeviceState : SetState(state)
    \/ State
    \/ \E name \in Names : SetName(name)
    \/ \E address \in Addresses : SetAddress(address)
    \/ \E address \in IPv4Addresses : SetIPv4Address(address)

SpecDevice == InitDevice /\ [][NextDevice]_vars

\* ------------------------------------------------------------- interleaving
\* The calls of the producer thread, the runtime's threads and the output
\* thread taken statement by statement: each reads running_, input_queue_
\* and pending_buffers_ where its code does, and nothing in H264Encoder
\* holds a lock between the statements. The control thread's Configure,
\* Start and Stop are the actions above. user_data and the output slot are
\* non-null here.

\* QueueBuffer, 665-666: if (!running_) return;
QueueCheck ==
    /\ producer = "idle"
    /\ IF QueueRejected
       THEN /\ last' = Call("QueueBuffer", "void", <<>>)
            /\ UNCHANGED producer
       ELSE /\ next_buffer <= MaxBuffers
            /\ producer' = "push"
            /\ UNCHANGED last
    /\ UNCHANGED <<readout_, encoderVars, running_, pc, bufferVars>>
    /\ UNCHANGED <<reader, returner, output, mbsVars, deviceVars, startVars>>

\* QueueBuffer, 668-670: input_queue_->Push(buffer) and the report.
QueuePush(native, len) ==
    /\ producer = "push"
    /\ producer' = "idle"
    /\ input_queue_' =
           BufferQueuePush(input_queue_, Buffer(next_buffer, native, len))
    /\ next_buffer' = next_buffer + 1
    /\ last' = Call("QueueBuffer", "void", <<"ReceivedInputBuffer">>)
    /\ UNCHANGED <<readout_, encoderVars, running_, pc,
                   pending_buffers_, pack_calls, packed, returned,
                   media_released, released>>
    /\ UNCHANGED <<reader, returner, output, mbsVars, deviceVars, startVars>>

ReaderIdle == [pc |-> "idle", item |-> <<>>]

\* OnSourceRead, 553-557: the tests of thiz->running_ and of the slot.
ReadCheck ==
    /\ reader.pc = "idle"
    /\ IF ReadPrecondition(TRUE, TRUE) # "0"
       THEN /\ last' = ReadCall(ReadPrecondition(TRUE, TRUE), <<>>, TRUE, TRUE,
                                NoBuffer, NullMedia)
            /\ UNCHANGED reader
       ELSE /\ reader' = [reader EXCEPT !.pc = "next"]
            /\ UNCHANGED last
    /\ UNCHANGED <<readout_, encoderVars, running_, pc, bufferVars>>
    /\ UNCHANGED <<producer, returner, output, mbsVars, deviceVars, startVars>>

\* OnSourceRead, 559-566, and PackBuffer up to its push_back, 501-529: the
\* buffer is taken from the queue and packed.
ReadNext(alloc_ok) ==
    /\ reader.pc = "next"
    /\ LET taken == TakeInput(input_queue_)
           input_buffer == taken.buffer
           next_buffer_ == PackBuffer(input_buffer, alloc_ok)
       IN  /\ input_queue_' = taken.rest
           /\ IF input_buffer = NoBuffer
              THEN /\ last' = ReadWithoutInput(TRUE, TRUE)
                   /\ reader' = ReaderIdle
                   /\ UNCHANGED pack_calls
              ELSE /\ pack_calls' = Append(pack_calls, input_buffer.id)
                   /\ IF next_buffer_ = NullMedia
                      THEN /\ last' = ReadCall("EndOfStream",
                                               PackCalls(input_buffer, alloc_ok),
                                               TRUE, TRUE, input_buffer, NullMedia)
                           /\ reader' = ReaderIdle
                      ELSE /\ reader' =
                                  [pc |-> "push_back",
                                   item |-> <<BufferItem(input_buffer, next_buffer_)>>]
                           /\ UNCHANGED last
    /\ UNCHANGED <<readout_, encoderVars, running_, pc, pending_buffers_,
                   next_buffer, packed, returned, media_released, released>>
    /\ UNCHANGED <<producer, returner, output, mbsVars, deviceVars, startVars>>

\* PackBuffer, 543, and the rest of OnSourceRead, 568-572: push_back, which
\* may move the vector's storage and leave an iterator that another thread
\* holds dangling, then the buffer goes to the runtime.
ReadPushBack ==
    /\ reader.pc = "push_back"
    /\ LET item == reader.item[1]
       IN  /\ pending_buffers_' = Append(pending_buffers_, item)
           /\ packed' = Append(packed, <<item.buffer.id, item.media_buffer>>)
           /\ last' = ReadCall("0", <<"media_buffer_create", "BeganFrame">>,
                               TRUE, TRUE, item.buffer, item.media_buffer)
    /\ reader' = ReaderIdle
    /\ returner' = IF returner.pc = "found"
                   THEN [returner EXCEPT !.moved = TRUE] ELSE returner
    /\ UNCHANGED <<readout_, encoderVars, running_, pc, input_queue_,
                   next_buffer, pack_calls, returned, media_released, released>>
    /\ UNCHANGED <<producer, output, mbsVars, deviceVars, startVars>>

\* OnBufferReturned, 584-593: the scan of pending_buffers_. The runtime
\* returns a buffer it was handed, once.
ReturnScan(buffer) ==
    /\ returner.pc = "idle"
    /\ buffer \in HandedOut \ returned
    /\ returned' = returned \cup {buffer}
    /\ IF FindPending(buffer) = 0
       THEN /\ last' = ReturnCall(<<>>, TRUE, buffer)
            /\ UNCHANGED returner
       ELSE /\ returner' = [pc |-> "found", iter |-> FindPending(buffer),
                            buffer |-> buffer, moved |-> FALSE]
            /\ UNCHANGED last
    /\ UNCHANGED <<readout_, encoderVars, running_, pc, input_queue_,
                   pending_buffers_, next_buffer, pack_calls, packed,
                   media_released, released>>
    /\ UNCHANGED <<producer, reader, output, mbsVars, deviceVars, startVars>>

\* What erase(iter) can leave of s when iter dangles: any one entry gone, or
\* none.
EraseDangling(s) == {Erase(s, i) : i \in DOMAIN s} \cup {s}

\* OnBufferReturned, 599-607: the releases and the erase through iter. When
\* a push_back came in between, iter may dangle: the entry read through it
\* and what the erase removes are then any of the outcomes.
ReturnErase ==
    /\ returner.pc = "found"
    /\ \E read \in (IF returner.moved THEN DOMAIN pending_buffers_
                    ELSE {returner.iter}) :
           LET item == pending_buffers_[read]
           IN  /\ media_released' =
                      [media_released EXCEPT ![item.media_buffer] = @ + 1]
               /\ released' = [released EXCEPT ![item.buffer.id] = @ + 1]
    /\ pending_buffers_' \in (IF returner.moved
                              THEN EraseDangling(pending_buffers_)
                              ELSE {Erase(pending_buffers_, returner.iter)})
    /\ last' = ReturnCall(<<"media_buffer_release", "Release">>,
                          TRUE, returner.buffer)
    /\ returner' = [pc |-> "idle"] @@ NoIter
    /\ UNCHANGED <<readout_, encoderVars, running_, pc, input_queue_,
                   next_buffer, pack_calls, packed, returned>>
    /\ UNCHANGED <<producer, reader, output, mbsVars, deviceVars, startVars>>

\* Execute, 622-625: if (!running_) return false;
ExecuteCheck ==
    /\ output = "idle"
    /\ IF ~running_
       THEN /\ last' = Call("Execute", "false", <<>>)
            /\ UNCHANGED output
       ELSE /\ output' = "read"
            /\ UNCHANGED last
    /\ UNCHANGED <<readout_, encoderVars, running_, pc, bufferVars>>
    /\ UNCHANGED <<producer, reader, returner, mbsVars, deviceVars, startVars>>

\* Execute, 627-647: media_codec_source_read and what follows it.
ExecuteRead(read_ok, codec_config, lock1, lock2) ==
    /\ output = "read"
    /\ output' = "idle"
    /\ lock2 => lock1
    /\ IF ~read_ok
       THEN last' = Call("Execute", "false", <<"media_codec_source_read:false">>)
       ELSE last' = Call("Execute", "true",
                         <<"media_codec_source_read", "FinishedFrame">>
                         \o DelegateCalls(codec_config, lock1, lock2))
    /\ UNCHANGED <<readout_, encoderVars, running_, pc, bufferVars>>
    /\ UNCHANGED <<producer, reader, returner, mbsVars, deviceVars, startVars>>

NextConc ==
    \/ \E config \in Configs : ValidConfig(config) /\ Configure(config, 0)
    \/ StartCall /\ UNCHANGED start_entry
    \/ \E ok \in BOOLEAN : StartReturn(ok) /\ UNCHANGED start_entry
    \/ Stop(TRUE)
    \/ QueueCheck
    \/ \E native \in BOOLEAN : QueuePush(native, 4)
    \/ ReadCheck
    \/ \E alloc_ok \in BOOLEAN : ReadNext(alloc_ok)
    \/ ReadPushBack
    \/ \E buffer \in MediaIds : ReturnScan(buffer)
    \/ ReturnErase
    \/ ExecuteCheck
    \/ \E read_ok \in BOOLEAN : ExecuteRead(read_ok, FALSE, TRUE, TRUE)

SpecConc == Init /\ [][NextConc]_vars

\* ------------------------------------------------------------------- claims
\* The entries of pending_buffers_ that hold media buffer m.
PendingEntries(m) ==
    {i \in DOMAIN pending_buffers_ : pending_buffers_[i].media_buffer = m}

\* C1: once a Configure call with a valid configuration has succeeded, the
\* Configure call that follows it immediately returns false and leaves
\* config_, encoder_, format_ and source_format_ as the first call set them;
\* encoder_, once set, is never assigned again.
C1_SecondConfigureFails ==
    [][ /\ (encoder_ # 0 => encoder_' = encoder_)
        /\ (/\ last.op = "Configure" /\ last.ret = "true"
            /\ ValidConfig(config_)
            /\ last'.op = "Configure")
           => /\ last'.ret = "false"
              /\ config_' = config_
              /\ encoder_' = encoder_
              /\ format_' = format_
              /\ source_format_' = source_format_ ]_vars

\* A Configure call right after a successful one, with a valid stored
\* configuration, has been rejected.
C1_Witness ==
    /\ last.op = "Configure" /\ last.again /\ last.ret = "false"
    /\ encoder_ # 0 /\ ValidConfig(config_)

\* C2: while no Configure has succeeded (encoder_ is null) the running flag
\* is false, and a Start call returns false at once: it does not reach
\* media_codec_source_start, leaves running_ false and reports no Started.
C2_StartBeforeConfigureFails ==
    /\ [](encoder_ = 0 => (~running_ /\ pc = "idle"))
    /\ [][ (encoder_ = 0 /\ last'.op = "Start")
           => /\ last'.ret = "false"
              /\ ~running_'
              /\ pc' = "idle"
              /\ last'.ev = <<>> ]_vars

\* Start has been called on an unconfigured encoder.
C2_Witness ==
    last.op = "Start" /\ encoder_ = 0 /\ last.ret = "false"

\* C3: a QueueBuffer call made while running_ is false leaves the Buffer
\* Queue as it was and sends no ReceivedInputBuffer notification.
C3_QueueWhileStoppedIsNoOp ==
    [][ (~running_ /\ last'.op = "QueueBuffer")
        => /\ input_queue_' = input_queue_
           /\ next_buffer' = next_buffer
           /\ ~Has(last'.ev, "ReceivedInputBuffer") ]_vars

\* QueueBuffer has been called on a stopped encoder whose queue still holds
\* a buffer from before the stop.
C3_Witness ==
    /\ last.op = "QueueBuffer" /\ ~running_ /\ last.ev = <<>>
    /\ input_queue_ # <<>>

\* C4 as stated: every pull-read that found a buffer in the queue packed it
\* and handed it to the runtime, the i-th one the i-th accepted buffer, with
\* none skipped.
C4_EveryReadPacks ==
    /\ Len(packed) = Len(pack_calls)
    /\ \A i \in DOMAIN packed : packed[i][1] = i

\* C4 (amended): the i-th pull-read that finds the queue non-empty hands the
\* i-th accepted buffer to PackBuffer; the buffers whose pack succeeds reach
\* the runtime in push order, none reordered or duplicated, each paired with
\* its own media buffer; the queue holds the accepted buffers not yet taken,
\* oldest first. A buffer is skipped only when its pack fails.
C4_FifoOrder ==
    /\ \A i \in DOMAIN pack_calls : pack_calls[i] = i
    /\ \A i \in DOMAIN packed : Has(pack_calls, packed[i][1])
    /\ \A i, j \in DOMAIN packed : i < j => packed[i][1] < packed[j][1]
    /\ \A i \in DOMAIN packed : packed[i][2] = -i
    /\ Len(input_queue_) = next_buffer - 1 - Len(pack_calls)
    /\ \A i \in DOMAIN input_queue_ : input_queue_[i].id = Len(pack_calls) + i
    /\ \A i \in DOMAIN pending_buffers_ :
           Has(packed, <<pending_buffers_[i].buffer.id,
                         pending_buffers_[i].media_buffer>>)
    /\ (last.op = "OnSourceRead" /\ last.out # NullMedia)
       => packed[Len(packed)] = <<last.pack.id, last.out>>

\* Two buffers were pushed and two pull-reads have packed them.
C4_Witness ==
    /\ Len(packed) >= 2
    /\ last.op = "OnSourceRead" /\ last.out # NullMedia

\* C5: a media buffer that a successful pack handed out has exactly one
\* entry in pending_buffers_ until its return callback fires and none after
\* that; the media buffer and the producer buffer packed into it are each
\* released exactly once, by that callback, so a repeated callback removes
\* nothing and releases nothing; pending_buffers_ holds no other entry.
C5_PendingExactlyOnce ==
    /\ \A i \in DOMAIN packed :
          LET b == packed[i][1]
              m == packed[i][2]
              n == IF m \in returned THEN 1 ELSE 0
          IN  /\ Cardinality(PendingEntries(m)) = 1 - n
              /\ media_released[m] = n
              /\ released[b] = n
    /\ Len(pending_buffers_) = Cardinality(HandedOut \ returned)
    /\ returned \subseteq HandedOut

\* The return callback has fired a second time for a media buffer while
\* another packed buffer is still pending.
C5_Witness ==
    /\ last.op = "OnBufferReturned" /\ last.thiz
    /\ last.arg \in returned /\ last.ev = <<>>
    /\ pending_buffers_ # <<>>

\* C6: a return callback for a media buffer that has no entry in
\* pending_buffers_ leaves pending_buffers_ as it was, releases no media
\* buffer and no producer buffer, and returns.
C6_UnknownBufferIgnored ==
    [][ (last'.op = "OnBufferReturned" /\ PendingEntries(last'.arg) = {})
        => /\ pending_buffers_' = pending_buffers_
           /\ media_released' = media_released
           /\ released' = released
           /\ last'.ret = "void"
           /\ last'.ev = <<>> ]_vars

\* The callback has fired, on the encoder, for a media buffer that was
\* never handed out, while an entry was pending.
C6_Witness ==
    /\ last.op = "OnBufferReturned" /\ last.thiz
    /\ last.arg \notin HandedOut
    /\ pending_buffers_ # <<>>

\* C7: a Stop call on a running encoder whose media_codec_source_stop
\* succeeds returns true and clears running_; the Stop call that follows it
\* immediately returns false without calling media_codec_source_stop, and
\* the two calls together send exactly one Stopped notification.
C7_SecondStopFails ==
    [][ /\ (/\ running_ /\ pc = "idle" /\ last'.op = "Stop"
            /\ ~Has(last'.ev, "media_codec_source_stop:false"))
           => (last'.ret = "true" /\ ~running_')
        /\ (last.op = "Stop" /\ last.ret = "true" /\ last'.op = "Stop")
           => /\ ~running_ /\ ~running_'
              /\ last'.ret = "false"
              /\ ~Has(last'.ev, "media_codec_source_stop")
              /\ ~Has(last'.ev, "media_codec_source_stop:false")
              /\ Count(last.ev, "Stopped") + Count(last'.ev, "Stopped") = 1 ]_vars

\* Stop has been called right after a successful Stop.
C7_Witness ==
    last.op = "Stop" /\ last.again /\ last.ret = "false" /\ ~running_

\* C8: a pull-read on a running encoder, with the encoder as user_data and
\* a non-null output slot, that finds the Buffer Queue empty returns
\* end-of-stream, calls PackBuffer on nothing, adds no pending entry, writes
\* nothing to the output slot and sends no BeganFrame.
C8_EmptyQueueEndsStream ==
    [][ (/\ last'.op = "OnSourceRead" /\ last'.thiz /\ last'.slot
         /\ running_ /\ input_queue_ = <<>>)
        => /\ last'.ret = "EndOfStream"
           /\ last'.pack = NoBuffer
           /\ last'.out = NullMedia
           /\ last'.ev = <<>>
           /\ pending_buffers_' = pending_buffers_
           /\ packed' = packed
           /\ pack_calls' = pack_calls
           /\ input_queue_' = <<>> ]_vars

\* A pull-read has found the queue of a running encoder empty.
C8_Witness ==
    /\ last.op = "OnSourceRead" /\ last.thiz /\ last.slot /\ running_
    /\ last.pack = NoBuffer /\ last.ret = "EndOfStream"

\* C9: in readout mode, PackBuffer on a buffer that carries a native handle
\* fails whatever the buffer's length: the pull-read gets no media buffer,
\* and pending_buffers_ and the record of packed buffers are unchanged.
C9_ReadoutRejectsNativeHandle ==
    [][ (/\ last'.op = "OnSourceRead" /\ last'.pack # NoBuffer
         /\ readout_ /\ last'.pack.native)
        => /\ last'.out = NullMedia
           /\ last'.ret = "EndOfStream"
           /\ pending_buffers_' = pending_buffers_
           /\ packed' = packed ]_vars

\* A readout-mode encoder has been handed a non-empty buffer with a native
\* handle to pack.
C9_Witness ==
    /\ readout_ /\ last.op = "OnSourceRead"
    /\ last.pack # NoBuffer /\ last.pack.native /\ last.pack.len > 0

\* C10: in zero-copy mode, PackBuffer on a buffer that carries no native
\* handle fails whatever the buffer's length: the pull-read gets no media
\* buffer, and pending_buffers_ and the record of packed buffers are
\* unchanged.
C10_ZeroCopyRejectsMissingHandle ==
    [][ (/\ last'.op = "OnSourceRead" /\ last'.pack # NoBuffer
         /\ ~readout_ /\ ~last'.pack.native)
        => /\ last'.out = NullMedia
           /\ last'.ret = "EndOfStream"
           /\ pending_buffers_' = pending_buffers_
           /\ packed' = packed ]_vars

\* A zero-copy encoder has been handed a non-empty buffer without a native
\* handle to pack.
C10_Witness ==
    /\ ~readout_ /\ last.op = "OnSourceRead"
    /\ last.pack # NoBuffer /\ ~last.pack.native /\ last.pack.len > 0

\* C11: while Start is inside media_codec_source_start the running flag is
\* already true, so a pull-read the runtime makes from inside its start
\* operation, with the encoder as user_data, never returns not-connected.
C11_RunningBeforeRuntimeStart ==
    /\ [](pc = "in_start" => running_)
    /\ [][ (pc = "in_start" /\ last'.op = "OnSourceRead" /\ last'.thiz)
           => last'.ret # "NotConnected" ]_vars

\* A pull-read made from inside media_codec_source_start has packed a
\* buffer.
C11_Witness ==
    /\ pc = "in_start" /\ last.op = "OnSourceRead" /\ last.thiz
    /\ last.ret = "0" /\ last.out # NullMedia

\* C12: when media_codec_source_start fails, Start returns false with the
\* running flag false and sends no Started; Started is sent exactly when
\* Start returns true.
C12_FailedStartRollsBack ==
    [][ (last'.op = "Start" /\ last'.ret # "pending")
        => /\ Has(last'.ev, "media_codec_source_start:false")
              => /\ pc = "in_start" /\ pc' = "idle"
                 /\ last'.ret = "false"
                 /\ ~running_'
                 /\ ~Has(last'.ev, "Started")
           /\ Has(last'.ev, "Started") <=> last'.ret = "true"
           /\ Count(last'.ev, "Started") <= 1 ]_vars

\* Start has returned after media_codec_source_start failed.
C12_Witness ==
    /\ last.op = "Start" /\ Has(last.ev, "media_codec_source_start:false")
    /\ encoder_ # 0 /\ ~running_

\* C13: a pull-read with a null instance or a false running flag returns
\* not-connected, also when the output slot is null; otherwise a pull-read
\* with a null output slot returns buffer-too-small; in both cases the
\* Buffer Queue and pending_buffers_ are unchanged.
C13_ReadPreconditionOrder ==
    [][ (last'.op = "OnSourceRead")
        => /\ (~last'.thiz \/ ~running_) => last'.ret = "NotConnected"
           /\ (last'.thiz /\ running_ /\ ~last'.slot)
              => last'.ret = "BufferTooSmall"
           /\ (~last'.thiz \/ ~running_ \/ ~last'.slot)
              => /\ input_queue_' = input_queue_
                 /\ pending_buffers_' = pending_buffers_
                 /\ pack_calls' = pack_calls
                 /\ last'.pack = NoBuffer /\ last'.out = NullMedia ]_vars

\* A pull-read with a null output slot has found the encoder stopped, or
\* the instance null, while a buffer was queued.
C13_Witness ==
    /\ last.op = "OnSourceRead" /\ ~last.slot
    /\ last.ret = "NotConnected" /\ input_queue_ # <<>>

\* The first position of e in s.
Pos(s, e) == CHOOSE i \in DOMAIN s : s[i] = e /\ \A j \in 1..(i - 1) : s[j] # e

\* C14: an Execute that returns true and finds the delegate alive at every
\* lock calls OnBufferAvailable exactly once; when the unit carries codec
\* configuration it calls OnBufferWithCodecConfig exactly once, before
\* OnBufferAvailable, and otherwise not at all. When the delegate is gone at
\* every lock, neither callback is made and Execute still returns true.
C14_DelegateCallbacks ==
    [][ (last'.op = "Execute" /\ Has(last'.ev, "media_codec_source_read"))
        => LET ev == last'.ev
               live == ~Has(ev, "delegate_.lock:null")
               gone == ~Has(ev, "delegate_.lock")
               flagged == Has(ev, "DoesBufferContainCodecConfig:true")
           IN  /\ last'.ret = "true"
               /\ live => /\ Count(ev, "OnBufferAvailable") = 1
                          /\ flagged
                             => /\ Count(ev, "OnBufferWithCodecConfig") = 1
                                /\ Pos(ev, "OnBufferWithCodecConfig")
                                   < Pos(ev, "OnBufferAvailable")
                          /\ ~flagged => Count(ev, "OnBufferWithCodecConfig") = 0
               /\ gone => /\ Count(ev, "OnBufferAvailable") = 0
                          /\ Count(ev, "OnBufferWithCodecConfig") = 0 ]_vars

\* Execute has read a codec-configuration unit and told a live delegate.
C14_Witness ==
    /\ last.op = "Execute" /\ last.ret = "true"
    /\ Has(last.ev, "DoesBufferContainCodecConfig:true")
    /\ Has(last.ev, "OnBufferWithCodecConfig")
    /\ Has(last.ev, "OnBufferAvailable")

\* A runtime create call of Configure returned nullptr.
AllocFailed(ev) ==
    \E i \in DOMAIN ev :
        ev[i] \in {"media_message_create:null", "media_source_create:null",
                   "media_meta_data_create:null",
                   "media_codec_source_create:null"}

\* C17: a Configure that fails at one of its allocations returns false,
\* releases each runtime object it had created exactly once and leaves
\* encoder_, format_, source_format_ and config_ unset; the Configure call
\* after it is not rejected as already configured and succeeds when its
\* allocations do.
C17_FailedConfigureReleasesAll ==
    [][ /\ (last'.op = "Configure" /\ AllocFailed(last'.ev))
           => /\ last'.ret = "false"
              /\ Count(last'.ev, "media_message_release")
                 = Count(last'.ev, "media_message_create")
              /\ Count(last'.ev, "media_source_release")
                 = Count(last'.ev, "media_source_create")
              /\ Count(last'.ev, "media_meta_data_release")
                 = Count(last'.ev, "media_meta_data_create")
              /\ Count(last'.ev, "media_codec_source_create") = 0
              /\ encoder_' = 0 /\ format_' = 0 /\ source_format_' = 0
              /\ config_' = UnsetConfig
        /\ (/\ last.op = "Configure" /\ AllocFailed(last.ev)
            /\ last'.op = "Configure")
           => /\ last'.ev # <<>>
              /\ ~AllocFailed(last'.ev)
                 => (last'.ret = "true" /\ encoder_' # 0) ]_vars

\* Configure has failed at media_codec_source_create, with three runtime
\* objects to release.
C17_Witness ==
    /\ last.op = "Configure"
    /\ Has(last.ev, "media_codec_source_create:null")
    /\ encoder_ = 0

\* PackBuffer's two branches both refuse buffer b.
PackMismatch(b) ==
    \/ readout_ /\ (b.native \/ b.len = 0)
    \/ ~readout_ /\ ~b.native

\* C20: when PackBuffer fails inside a pull-read (mode/handle mismatch,
\* empty readout buffer, or media_buffer_create failing), the pull-read
\* returns end-of-stream, the running flag stays true, pending_buffers_ is
\* unchanged and only the buffer taken leaves the Buffer Queue; the next
\* pull-read that takes a buffer takes the one queued behind it and packs it
\* when nothing fails.
C20_FailedPackDropsOneBuffer ==
    [][ /\ (/\ last'.op = "OnSourceRead" /\ last'.pack # NoBuffer
            /\ (\/ PackMismatch(last'.pack)
                \/ Has(last'.ev, "media_buffer_create:null")))
           => /\ last'.ret = "EndOfStream"
              /\ last'.out = NullMedia
              /\ running_ /\ running_'
              /\ pending_buffers_' = pending_buffers_
              /\ packed' = packed
              /\ input_queue_ # <<>>
              /\ last'.pack = Head(input_queue_)
              /\ input_queue_' = Tail(input_queue_)
        /\ (/\ last.op = "OnSourceRead" /\ last.pack # NoBuffer
            /\ last.out = NullMedia
            /\ last'.op = "OnSourceRead" /\ last'.pack # NoBuffer)
           => /\ last'.pack = Head(input_queue_)
              /\ last'.pack.id = last.pack.id + 1
              /\ (/\ ~PackMismatch(last'.pack)
                  /\ ~Has(last'.ev, "media_buffer_create:null"))
                 => (last'.ret = "0" /\ last'.out # NullMedia) ]_vars

\* The first buffer was dropped by a failed pack and the pull-read after it
\* packed the second.
C20_Witness ==
    /\ running_ /\ pack_calls = <<1, 2>>
    /\ Len(packed) = 1 /\ packed[1][1] = 2
    /\ last.op = "OnSourceRead" /\ last.out # NullMedia

\* C18: SetState(q) makes State() return q whatever the phase p was before,
\* no pair (p, q) is refused, and state_ is always exactly one of the six
\* phases.
C18_SetStateUnconditional ==
    /\ [](state_ \in NetworkDeviceState)
    /\ [][ /\ device_last'.op = "SetState"
              => /\ state_' = device_last'.arg
                 /\ device_last'.prev = state_
           /\ (device_last.op = "SetState" /\ device_last'.op = "State")
              => device_last'.ret = device_last.arg ]_vars

\* SetState has left kDisconnected for kAssociation, a change the state
\* diagram does not draw.
C18_Witness ==
    /\ device_last.op = "SetState"
    /\ device_last.prev = "kDisconnected" /\ device_last.arg = "kAssociation"
    /\ state_ = "kAssociation"

\* C19: for every positive width and height the value written under
\* kFormatKeyIntraRefreshCIRMbs is floor(ceil(w/16) * ceil(h/16) * 10 / 100),
\* which is floor(ceil(w/16) * ceil(h/16) / 10); for 1280x720 it is 360.
C19_MbsIsTenthOfMacroBlocks ==
    \A i \in DOMAIN mbs_written :
        /\ mbs_written[i]
           = (MacroBlocks(mbs_config.width) * MacroBlocks(mbs_config.height))
             \div 10
        /\ (mbs_config.width = 1280 /\ mbs_config.height = 720)
           => mbs_written[i] = 360

\* Configure has written 360 for 1280x720.
C19_Witness ==
    /\ mbs_config = [width |-> 1280, height |-> 720]
    /\ mbs_written = <<360>>

\* C15: under every interleaving, input_queue_->Push, the Next() and
\* PackBuffer of a pull-read and the media_codec_source_read of Execute
\* happen only at moments when running_ is true.
C15_OnlyWhileRunning ==
    [][ (\/ producer = "push" /\ producer' = "idle"
         \/ reader.pc = "next" /\ reader'.pc # "next"
         \/ output = "read" /\ output' = "idle")
        => running_ ]_vars

\* C16: the push_back of a pack never falls between the scan and the erase
\* of an OnBufferReturned, so that no erase acts on a position that a
\* push_back has made stale.
C16_PendingAccessExclusive ==
    [][ /\ (reader.pc = "push_back" /\ reader'.pc = "idle")
           => returner.pc # "found"
        /\ (returner.pc = "found" /\ returner'.pc = "idle")
           => ~returner.moved ]_vars

\* C21: a Start call that returns false leaves running_, the Buffer Queue
\* and pending_buffers_ as it found them, also when the runtime called
\* OnSourceRead from inside media_codec_source_start; no QueueBuffer was
\* accepted and no buffer was returned while the call was in progress.
C21_FailedStartRestores ==
    [][ /\ (/\ pc = "in_start" /\ last'.op = "Start" /\ last'.ret = "false"
            /\ next_buffer = start_entry.next
            /\ returned = start_entry.returned)
           => /\ running_' = start_entry.running
              /\ input_queue_' = start_entry.queue
              /\ pending_buffers_' = start_entry.pending
        /\ (pc = "idle" /\ last'.op = "Start" /\ last'.ret = "false")
           => /\ running_' = running_
              /\ input_queue_' = input_queue_
              /\ pending_buffers_' = pending_buffers_ ]_vars

\* C22: an Execute that returns false, because running_ is false or because
\* media_codec_source_read failed, sends no FinishedFrame and no delegate
\* callback and leaves running_, the Buffer Queue and pending_buffers_
\* unchanged; when running_ is false it does not call
\* media_codec_source_read at all.
C22_FailedExecuteIsSilent ==
    [][ (last'.op = "Execute" /\ last'.ret = "false")
        => /\ ~Has(last'.ev, "FinishedFrame")
           /\ ~Has(last'.ev, "OnBufferAvailable")
           /\ ~Has(last'.ev, "OnBufferWithCodecConfig")
           /\ running_' = running_
           /\ input_queue_' = input_queue_
           /\ pending_buffers_' = pending_buffers_
           /\ ~running_ => last'.ev = <<>>
           /\ running_ => last'.ev = <<"media_codec_source_read:false">> ]_vars

\* Execute has failed on media_codec_source_read with a buffer queued and
\* one pending.
C22_Witness ==
    /\ last.op = "Execute" /\ last.ret = "false"
    /\ Has(last.ev, "media_codec_source_read:false")
    /\ running_ /\ input_queue_ # <<>> /\ pending_buffers_ # <<>>

\* C23: Started and Stopped notifications alternate, Started first: the
\* number of Started minus the number of Stopped is 0 or 1, a Started is
\* sent only at 0 and a Stopped only at 1, and outside a Start call the
\* difference is 1 exactly when running_ is true. A Stop whose
\* media_codec_source_stop fails leaves running_ true and sends no Stopped;
\* a Start while running sends no Started.
C23_StartedStoppedAlternate ==
    /\ [](reports \in {0, 1})
    /\ [](pc = "idle" => (reports = 1 <=> running_))
    /\ [][ /\ (last'.op = "Start" /\ Has(last'.ev, "Started"))
              <=> (reports = 0 /\ reports' = 1)
           /\ (last'.op = "Stop" /\ Has(last'.ev, "Stopped"))
              <=> (reports = 1 /\ reports' = 0)
           /\ (last'.op = "Stop"
               /\ Has(last'.ev, "media_codec_source_stop:false"))
              => /\ running_ /\ running_'
                 /\ ~Has(last'.ev, "Stopped")
                 /\ last'.ret = "false"
           /\ (last'.op = "Start" /\ pc = "idle" /\ running_)
              => /\ last'.ret = "false" /\ last'.ev = <<>>
                 /\ running_' /\ pc' = "idle" ]_vars

\* A Stop has failed on media_codec_source_stop after a Started was sent.
C23_Witness ==
    /\ last.op = "Stop" /\ Has(last.ev, "media_codec_source_stop:false")
    /\ running_ /\ reports = 1

\* Where an accepted buffer b is.
InQueue(b) == {i \in DOMAIN input_queue_ : input_queue_[i].id = b}
InPending(b) == {i \in DOMAIN pending_buffers_ : pending_buffers_[i].buffer.id = b}
PackedFrom(b) == {packed[i][2] : i \in {j \in DOMAIN packed : packed[j][1] = b}}
Dropped(b) == Has(pack_calls, b) /\ PackedFrom(b) = {}
Places(b) ==
    Cardinality(InQueue(b)) + Cardinality(InPending(b))
    + (IF released[b] > 0 THEN 1 ELSE 0) + (IF Dropped(b) THEN 1 ELSE 0)

\* C24: every buffer QueueBuffer accepted is in exactly one place: in the
\* Buffer Queue, in an entry of pending_buffers_, released to its producer,
\* or dropped by a failed pack. Its Release is called at most once, and
\* only when OnBufferReturned has fired for the media buffer packed from it.
C24_BufferInOnePlace ==
    \A b \in 1..(next_buffer - 1) :
        /\ Places(b) = 1
        /\ released[b] <= 1
        /\ released[b] = 1
           => \E m \in PackedFrom(b) : m \in returned /\ media_released[m] = 1

\* Of two accepted buffers one was dropped by a failed pack and the other
\* released to its producer.
C24_Witness ==
    \E b, d \in 1..(next_buffer - 1) :
        /\ released[b] = 1 /\ Dropped(d)
        /\ input_queue_ = <<>> /\ pending_buffers_ = <<>>

\* C25: OnBufferReturned for a media buffer that has an entry in
\* pending_buffers_ removes the entry and releases the producer's buffer
\* whatever running_ is, so also after Stop has set it to false.
C25_ReturnIgnoresRunning ==
    [][ (/\ last'.op = "OnBufferReturned" /\ last'.thiz
         /\ PendingEntries(last'.arg) # {})
        => LET i == CHOOSE k \in PendingEntries(last'.arg) :
                        \A j \in PendingEntries(last'.arg) : k <= j
               item == pending_buffers_[i]
           IN  /\ Len(pending_buffers_') = Len(pending_buffers_) - 1
               /\ \A k \in DOMAIN pending_buffers_' :
                      pending_buffers_'[k] # item
               /\ released' = [released EXCEPT ![item.buffer.id] = @ + 1]
               /\ last'.ev = <<"media_buffer_release", "Release">>
               /\ running_' = running_ ]_vars

\* A buffer packed while running was returned, and released to its
\* producer, while the encoder was stopped.
C25_Witness ==
    /\ last.op = "OnBufferReturned" /\ Has(last.ev, "Release")
    /\ ~running_ /\ pc = "idle" /\ encoder_ # 0
    /\ released[1] = 1 /\ pending_buffers_ = <<>>

\* C26: Stop leaves the Buffer Queue and pending_buffers_ as they are;
\* while running_ is false no step changes the queue; Start does not touch
\* it; and a pull-read always takes the oldest queued buffer, which was
\* accepted before every buffer still queued, so buffers left over by Stop
\* are packed ahead of those queued after the restart.
C26_StopKeepsQueue ==
    [][ /\ last'.op = "Stop"
           => /\ input_queue_' = input_queue_
              /\ pending_buffers_' = pending_buffers_
        /\ ~running_ => input_queue_' = input_queue_
        /\ last'.op = "Start"
           => /\ input_queue_' = input_queue_
              /\ pending_buffers_' = pending_buffers_
        /\ (last'.op = "OnSourceRead" /\ last'.pack # NoBuffer)
           => /\ last'.pack = Head(input_queue_)
              /\ \A i \in DOMAIN input_queue_' :
                     input_queue_'[i].id > last'.pack.id
        /\ Len(input_queue_') > Len(input_queue_)
           => /\ SubSeq(input_queue_', 1, Len(input_queue_)) = input_queue_
              /\ Len(input_queue_') = Len(input_queue_) + 1
              /\ \A i \in DOMAIN input_queue_ :
                     input_queue_[i].id < input_queue_'[Len(input_queue_')].id
       ]_vars

\* Stop has succeeded with a buffer queued and one pending.
C26_Witness ==
    /\ last.op = "Stop" /\ last.ret = "true" /\ ~running_
    /\ input_queue_ # <<>> /\ pending_buffers_ # <<>>

====
